---- MODULE Spec2Model ----
(***************************************************************************)
(* Model of the pod browser of kty: the pod list (PodTable) with its       *)
(* filter overlay (Command) and detail pane (Detail), the event            *)
(* propagation macro, the resource store feeding the list, and the         *)
(* derived-view helpers of a pod (status, restarts).                       *)
(***************************************************************************)
EXTENDS Integers, Sequences, FiniteSets, TLC

VARIABLES
    store,      \* PodTable.pods: the Store's map, key -> latest pod
    selected,   \* PodTable.table.selected(), always Some(n) after new()
    cmd,        \* PodTable.cmd: Option<Command>
    detail,     \* PodTable.detail: Option<Detail>
    op,         \* the step just taken: "init", "dispatch", "draw", "watch", "call"
    event,      \* the event of the dispatch just taken
    result,     \* the Broadcast PodTable::dispatch returned for it
    trace,      \* who was offered that event, in call order, with each result
    frame,      \* what the draw just taken put on the screen
    hist,       \* per key, the last watch event applied (SpecStore only)
    pod,        \* the pod handed to the helpers (SpecPod only)
    out,        \* the helper's return value (SpecPod only)
    task        \* the Store's background task and the last snapshot read (SpecSync only)

vars ==
    <<store, selected, cmd, detail, op, event, result, trace, frame, hist, pod, out, task>>

----
\* Bounds of the model.

\* longest filter text typed into the overlay
MaxLen == 2
\* most bytes typed into the overlay when it is driven on its own
MaxTyped == 4
\* versions a watched pod goes through when a watch stream is replayed
MaxReplayVersion == 2

----
\* Option<T>: None is the empty sequence, Some(x) the one-element sequence.

None == <<>>

Some(x) == <<x>>

IsSome(o) == o # <<>>

IsNone(o) == o = <<>>

Unwrap(o) == o[1]

Min(a, b) == IF a < b THEN a ELSE b

Max(a, b) == IF a < b THEN b ELSE a

\* usize::saturating_sub
SatSub(a, b) == IF a < b THEN 0 ELSE a - b

----
\* Text: a String is the sequence of its (ASCII) characters.

Chars == {"/", "A", "a", "b", "n"}

\* the byte value of a character, which String's Ord compares
Byte(c) ==
    CASE c = "/" -> 47
      [] c = "A" -> 65
      [] c = "a" -> 97
      [] c = "b" -> 98
      [] c = "n" -> 110

RECURSIVE StrCmp(_, _)
\* <String as Ord>::cmp: lexicographic on bytes
StrCmp(s, t) ==
    IF s = <<>> /\ t = <<>> THEN "Equal"
    ELSE IF s = <<>> THEN "Less"
    ELSE IF t = <<>> THEN "Greater"
    ELSE IF Byte(Head(s)) < Byte(Head(t)) THEN "Less"
    ELSE IF Byte(Head(s)) > Byte(Head(t)) THEN "Greater"
    ELSE StrCmp(Tail(s), Tail(t))

RECURSIVE ContainsFrom(_, _, _)
ContainsFrom(s, f, i) ==
    IF i + Len(f) - 1 > Len(s) THEN FALSE
    ELSE IF SubSeq(s, i, i + Len(f) - 1) = f THEN TRUE
    ELSE ContainsFrom(s, f, i + 1)

\* str::contains(&str): f occurs in s as a contiguous run of characters
StrContains(s, f) == ContainsFrom(s, f, 1)

----
\* Pods of the cluster: metadata only (namespace, name) plus a version.

Keys ==
    { [ns |-> None,          name |-> <<"b", "a">>],
      [ns |-> Some(<<"n">>), name |-> <<"A", "b">>],
      [ns |-> Some(<<"n">>), name |-> <<"a">>] }

\* the pods the UI is run on: one per key, the list reading only namespace and name
Pods == { [ns |-> k.ns, name |-> k.name, ver |-> 1] : k \in Keys }

ReplayPods ==
    { [ns |-> k.ns, name |-> k.name, ver |-> v] : k \in Keys, v \in 1 .. MaxReplayVersion }

KeyOf(p) == [ns |-> p.ns, name |-> p.name]

\* ResourceExt::namespace().unwrap_or_default()
namespace_or_default(p) == IF IsSome(p.ns) THEN Unwrap(p.ns) ELSE <<>>

\* ResourceExt::name_any()
name_any(p) == p.name

\* the buggy comparison: name first, namespace second
cmp_name_first(a, b) ==
    LET lhs == StrCmp(name_any(a), name_any(b))
    IN  IF lhs # "Equal" THEN lhs
        ELSE StrCmp(namespace_or_default(a), namespace_or_default(b))

\* Compare for Arc<Pod>: namespace (missing = ""), then name
cmp(a, b) ==
    LET lhs == StrCmp(namespace_or_default(a), namespace_or_default(b))
    IN  IF lhs # "Equal" THEN lhs
        ELSE StrCmp(name_any(a), name_any(b))

\* the buggy match: the filter has to start the name
matches_prefix(p, filter) ==
    Len(filter) <= Len(name_any(p)) /\ SubSeq(name_any(p), 1, Len(filter)) = filter

\* Filter for Pod: matches
matches(p, filter) == StrContains(name_any(p), filter)

----
\* The Store: a map from key to the latest pod seen on the watch stream.

WatchKinds == {"Added", "Modified", "Deleted"}

WatchEvents == { [type |-> t, pod |-> p] : t \in WatchKinds, p \in Pods }

ReplayEvents == { [type |-> t, pod |-> p] : t \in WatchKinds, p \in ReplayPods }

Upsert(m, p) ==
    [k \in DOMAIN m \cup {KeyOf(p)} |-> IF k = KeyOf(p) THEN p ELSE m[k]]

Remove(m, k) == [x \in DOMAIN m \ {k} |-> m[x]]

\* a Deleted that is applied as an upsert
ApplyKeepsDeleted(m, e) == Upsert(m, e.pod)

\* one watch event applied to the map
Apply(m, e) ==
    IF e.type = "Deleted" THEN Remove(m, KeyOf(e.pod)) ELSE Upsert(m, e.pod)

RECURSIVE InsertSorted(_, _)
\* x put before the first element it is Less than
InsertSorted(x, s) ==
    IF s = <<>> THEN <<x>>
    ELSE IF cmp(x, Head(s)) = "Less" THEN <<x>> \o s
    ELSE <<Head(s)>> \o InsertSorted(x, Tail(s))

RECURSIVE SortSet(_)
SortSet(S) ==
    IF S = {} THEN <<>>
    ELSE LET x == CHOOSE x \in S : TRUE
         IN  InsertSorted(x, SortSet(S \ {x}))

\* Store::state(): the map's pods, sorted with Compare::cmp
state(m) == SortSet({ m[k] : k \in DOMAIN m })

----
\* Events and results.

Broadcast == {"Ignored", "Consumed", "Exited"}

Printables == {<<"a">>, <<"/">>}

Key(k) == [kind |-> "Keypress", key |-> k, text |-> <<>>]

Printable(x) == [kind |-> "Keypress", key |-> "Printable", text |-> x]

Resize == [kind |-> "Resize", key |-> "", text |-> <<>>]

NoEvent == [kind |-> "", key |-> "", text |-> <<>>]

Keypresses ==
    { Key(k) : k \in {"Escape", "Enter", "CursorUp", "CursorDown",
                      "CursorLeft", "CursorRight", "Backspace"} }
    \cup { Printable(x) : x \in Printables }

Events == Keypresses \cup {Resize}

NoFrame == [main |-> "", rows |-> <<>>, pod |-> None, overlay |-> None]

----
\* Command: the filter overlay.

\* Command::new()
NewCommand == [content |-> <<>>, pos |-> 0]

\* an insertion that leaves the text as it was
InsertNothing(s, p, x) == s

\* String::insert_str(pos, x)
InsertStr(s, p, x) == SubSeq(s, 1, p) \o x \o SubSeq(s, p + 1, Len(s))

\* the text of a key whose character takes two bytes in UTF-8 (U+00E9)
TwoByteChar == <<"C3", "A9">>

\* the bytes that continue a character begun by the byte before them
Continuation == {"A9"}

\* str::is_char_boundary(idx), idx a byte offset counted from 0
is_char_boundary(s, idx) ==
    \/ idx = 0
    \/ idx = Len(s)
    \/ idx < Len(s) /\ s[idx + 1] \notin Continuation

\* the bytes of the character that starts at byte offset idx
CharWidth(s, idx) == IF idx + 2 <= Len(s) /\ s[idx + 2] \in Continuation THEN 2 ELSE 1

\* String::remove(idx), idx counted from 0: the whole character at idx goes
RemoveAt(s, idx) == SubSeq(s, 1, idx) \o SubSeq(s, idx + CharWidth(s, idx) + 1, Len(s))

\* Command::dispatch: the overlay after the event, and the Broadcast returned, or
\* "Panic" when a String method is handed a byte offset inside a character
CommandDispatch(c, e) ==
    IF e.kind # "Keypress" THEN [state |-> c, result |-> "Ignored"]
    ELSE CASE e.key = "Escape" -> [state |-> c, result |-> "Exited"]
           [] e.key = "Printable" ->
                IF ~is_char_boundary(c.content, c.pos)
                THEN [state |-> c, result |-> "Panic"]
                ELSE [state |-> [content |-> InsertStr(c.content, c.pos, e.text),
                                 pos |-> c.pos + 1],
                      result |-> "Consumed"]
           [] e.key = "Backspace" ->
                IF c.content = <<>> \/ c.pos = 0
                THEN [state |-> c, result |-> "Consumed"]
                ELSE IF c.pos - 1 >= Len(c.content) \/ ~is_char_boundary(c.content, c.pos - 1)
                THEN [state |-> c, result |-> "Panic"]
                ELSE [state |-> [content |-> RemoveAt(c.content, c.pos - 1),
                                 pos |-> SatSub(c.pos, 1)],
                      result |-> "Consumed"]
           [] e.key = "CursorLeft" ->
                [state |-> [c EXCEPT !.pos = SatSub(c.pos, 1)], result |-> "Consumed"]
           [] e.key = "CursorRight" ->
                [state |-> [c EXCEPT !.pos = Max(0, Min(c.pos + 1, Len(c.content)))],
                 result |-> "Consumed"]
           [] OTHER -> [state |-> c, result |-> "Ignored"]

----
\* Detail: the detail pane, which forwards to its tabbed view first.

\* Detail::new(client, pod)
NewDetail(p) == [pod |-> p]

\* a detail pane without its Escape binding
DetailDispatchNoEscape(e, viewResult) ==
    IF viewResult = "Consumed" THEN "Consumed" ELSE "Ignored"

\* Detail::dispatch, given what the tabbed view returned for the event
DetailDispatch(e, viewResult) ==
    IF viewResult = "Consumed" THEN "Consumed"
    ELSE IF e.kind # "Keypress" THEN "Ignored"
    ELSE IF e.key = "Escape" THEN "Exited"
    ELSE "Ignored"

----
\* propagate!: what a parent does with the Broadcast of a child's dispatch.

\* a macro that lets a Consumed event fall through to the next handler
PropagateFallThrough(r) ==
    CASE r = "Exited"  -> [returns |-> TRUE,  value |-> "Consumed"]
      [] OTHER         -> [returns |-> FALSE, value |-> "Ignored"]

\* propagate!($fn, $exit): Exited runs $exit and returns Consumed, Ignored goes
\* on, anything else is returned as it is
Propagate(r) ==
    CASE r = "Exited"  -> [returns |-> TRUE,  value |-> "Consumed"]
      [] r = "Ignored" -> [returns |-> FALSE, value |-> "Ignored"]
      [] OTHER         -> [returns |-> TRUE,  value |-> r]

\* the $exit expression PodTable passes to propagate! is `event`: evaluating it
\* leaves the child slot as it is
OnExit(slot) == slot

----
\* PodTable: the pod list.

\* a list that ignores the overlay's text
items_of_store(c, m) == state(m)

\* PodTable::items(): the Store's pods, narrowed by the overlay's text
items(c, m) ==
    LET filter == IF IsSome(c) THEN Some(Unwrap(c).content) ELSE None
    IN  IF IsNone(filter) THEN state(m)
        ELSE SelectSeq(state(m),
                       LAMBDA p : IF Unwrap(filter) = <<>> THEN TRUE
                                  ELSE matches(p, Unwrap(filter)))

\* a scroll that never looks at the number of visible items
scroll_unclamped(sel, key, n) == IF key = "CursorUp" THEN SatSub(sel, 1) ELSE sel + 1

\* PodTable::scroll(key): the new selection, n the number of visible items
scroll(sel, key, n) ==
    LET next == IF key = "CursorUp" THEN SatSub(sel, 1) ELSE sel + 1
        max  == SatSub(n, 1)
    IN  Max(0, Min(next, max))

\* the match on the key in PodTable::dispatch, reached when no child used the event
OwnBindings(e) ==
    LET same == [cmd |-> cmd, detail |-> detail, selected |-> selected]
    IN  CASE e.key = "Escape" -> same @@ [result |-> "Exited"]
          [] e.key = "Enter" ->
                LET its == items(cmd, store)
                IN  [same EXCEPT !.detail = IF selected < Len(its)
                                            THEN Some(NewDetail(its[selected + 1]))
                                            ELSE None]
                    @@ [result |-> "Consumed"]
          [] e.key \in {"CursorUp", "CursorDown"} ->
                [same EXCEPT !.selected = scroll(selected, e.key, Len(items(cmd, store)))]
                @@ [result |-> "Consumed"]
          [] e.key = "Printable" ->
                [same EXCEPT !.cmd = IF e.text = <<"/">> THEN Some(NewCommand) ELSE cmd]
                @@ [result |-> "Consumed"]
          [] OTHER -> same @@ [result |-> "Ignored"]

\* PodTable::dispatch: the widget after the event, the Broadcast returned, and the
\* handlers the event was offered to; viewResult is what the detail's tabbed view
\* returns when it is asked
PodTableDispatch(e, viewResult) ==
    IF e.kind # "Keypress"
    THEN [cmd |-> cmd, detail |-> detail, selected |-> selected,
          result |-> "Ignored", trace |-> <<>>]
    ELSE
    LET c  == CommandDispatch(Unwrap(cmd), e)
        pc == Propagate(c.result)
        tc == IF IsSome(cmd) THEN <<[node |-> "cmd", result |-> c.result]>> ELSE <<>>
        d  == DetailDispatch(e, viewResult)
        pd == Propagate(d)
        td == IF IsSome(detail)
              THEN <<[node |-> "view", result |-> viewResult],
                     [node |-> "detail", result |-> d]>>
              ELSE <<>>
    IN  IF IsSome(cmd) /\ pc.returns
        THEN [cmd |-> IF c.result = "Exited" THEN OnExit(Some(c.state)) ELSE Some(c.state),
              detail |-> detail, selected |-> selected,
              result |-> pc.value, trace |-> tc]
        ELSE IF IsSome(detail) /\ pd.returns
        THEN [cmd |-> cmd,
              detail |-> IF d = "Exited" THEN OnExit(detail) ELSE detail,
              selected |-> selected,
              result |-> pd.value, trace |-> tc \o td]
        ELSE LET o == OwnBindings(e)
             IN  [cmd |-> o.cmd, detail |-> o.detail, selected |-> o.selected,
                  result |-> o.result,
                  trace |-> tc \o td \o <<[node |-> "own", result |-> o.result]>>]

\* PodTable::list(): the selection after the clamp, n the number of visible items
ListClamp(sel, n) == IF sel > n THEN SatSub(n, 1) ELSE sel

----
\* The state machine: input events, frames, and watch events.

NoHist == [k \in Keys |-> None]

NoPod == None

\* the background task between two watch events, nothing read yet
NoTask ==
    [pc |-> "watch", work |-> [k \in {} |-> None], listing |-> {},
     complete |-> [k \in {} |-> None], read |-> None]

UiInit ==
    /\ task = NoTask
    /\ store = [k \in {} |-> None]
    /\ selected = 0
    /\ cmd = None
    /\ detail = None
    /\ op = "init"
    /\ event = NoEvent
    /\ result = "None"
    /\ trace = <<>>
    /\ frame = NoFrame

Init ==
    /\ UiInit
    /\ hist = NoHist
    /\ pod = NoPod
    /\ out = None

\* the filter text stays within the model's bound
WithinBound(e) ==
    (e.key = "Printable" /\ IsSome(cmd)) => Len(Unwrap(cmd).content) < MaxLen

\* what the tabbed view of the open detail may return for an event, when the event
\* gets as far as the detail
ViewResults(e) ==
    IF /\ IsSome(detail) /\ e.kind = "Keypress"
       /\ (IsNone(cmd) \/ CommandDispatch(Unwrap(cmd), e).result = "Ignored")
    THEN Broadcast
    ELSE {"Ignored"}

\* the UI loop hands one event to PodTable::dispatch
Dispatch ==
    \E e \in Events : \E v \in ViewResults(e) :
        /\ WithinBound(e)
        /\ \E r \in {PodTableDispatch(e, v)} :
               /\ cmd' = r.cmd
               /\ detail' = r.detail
               /\ selected' = r.selected
               /\ result' = r.result
               /\ trace' = r.trace
        /\ op' = "dispatch"
        /\ event' = e
        /\ frame' = NoFrame
        /\ UNCHANGED <<store, hist, pod, out, task>>

\* Screen for PodTable: draw(): the detail if one is open, else the list (which
\* clamps the selection), then the overlay over it if one is open
Draw ==
    /\ IF IsSome(detail)
       THEN /\ selected' = selected
            /\ frame' = [main |-> "detail", rows |-> <<>>, pod |-> Some(Unwrap(detail).pod),
                         overlay |-> IF IsSome(cmd) THEN Some(Unwrap(cmd).content) ELSE None]
       ELSE /\ selected' = ListClamp(selected, Len(items(cmd, store)))
            /\ frame' = [main |-> "list", rows |-> items(cmd, store), pod |-> None,
                         overlay |-> IF IsSome(cmd) THEN Some(Unwrap(cmd).content) ELSE None]
    /\ op' = "draw"
    /\ event' = NoEvent
    /\ result' = "None"
    /\ trace' = <<>>
    /\ UNCHANGED <<store, cmd, detail, hist, pod, out, task>>

\* the cluster reports Added for a pod the stream has not shown yet (or has shown
\* deleted), Modified and Deleted for one it has shown
Coherent(e) == (e.type = "Added") <=> (KeyOf(e.pod) \notin DOMAIN store)

\* the background task applies one watch event to the Store
Watch ==
    \E e \in WatchEvents :
        /\ Coherent(e)
        /\ store' = Apply(store, e)
        /\ op' = "watch"
        /\ event' = NoEvent
        /\ result' = "None"
        /\ trace' = <<>>
        /\ frame' = NoFrame
        /\ UNCHANGED <<selected, cmd, detail, hist, pod, out, task>>

Next == Dispatch \/ Draw \/ Watch

Spec == Init /\ [][Next]_vars

\* a watch stream replayed into the Store on its own, the last event of every key
\* kept beside the map
Replay ==
    \E e \in ReplayEvents :
        /\ store' = Apply(store, e)
        /\ hist' = [hist EXCEPT ![KeyOf(e.pod)] = Some(e)]
        /\ op' = "watch"
        /\ UNCHANGED <<selected, cmd, detail, event, result, trace, frame, pod, out, task>>

SpecStore == Init /\ [][Replay]_vars

----
\* The overlay on its own: keys with one-byte and two-byte characters handed to
\* Command::dispatch.

CommandEvents ==
    Keypresses \cup {Printable(TwoByteChar), Resize}

\* the overlay as Command::new() makes it
CommandInit ==
    /\ cmd = Some(NewCommand)
    /\ store = [k \in {} |-> None]
    /\ selected = 0
    /\ detail = None
    /\ op = "init"
    /\ event = NoEvent
    /\ result = "None"
    /\ trace = <<>>
    /\ frame = NoFrame
    /\ hist = NoHist
    /\ pod = NoPod
    /\ out = None
    /\ task = NoTask

\* one event handed to the open overlay; a panic ends the program
CommandKey ==
    \E e \in CommandEvents :
        /\ result # "Panic"
        /\ Len(Unwrap(cmd).content) + Len(e.text) <= MaxTyped
        /\ \E r \in {CommandDispatch(Unwrap(cmd), e)} :
               /\ cmd' = Some(r.state)
               /\ result' = r.result
        /\ event' = e
        /\ op' = "key"
        /\ UNCHANGED <<store, selected, detail, trace, frame, hist, pod, out, task>>

SpecCommand == CommandInit /\ [][CommandKey]_vars

----
\* The Store beside the UI loop: the background task applies watch events and
\* re-seeds the map after the watch expires, the UI loop reads snapshots.

\* a map that readers see while it is still being re-seeded
PublishedEarly(current, work, done) == work

\* the map readers see: the re-seeded one replaces the current one when it is whole
Published(current, work, done) == IF done THEN work ELSE current

\* one watch event, applied and published in one step
TaskEvent ==
    \E e \in WatchEvents :
        /\ task.pc = "watch"
        /\ Coherent(e)
        /\ store' = Apply(store, e)
        /\ task' = [task EXCEPT !.complete = Apply(task.complete, e)]
        /\ op' = "watch"
        /\ UNCHANGED <<selected, cmd, detail, event, result, trace, frame, hist, pod, out>>

\* the watch expired: the task lists the pods again and starts a fresh map
TaskExpire ==
    \E listing \in SUBSET Pods :
        /\ task.pc = "watch"
        /\ store' = Published(store, NoTask.work, listing = {})
        /\ task' = [task EXCEPT !.pc = IF listing = {} THEN "watch" ELSE "relist",
                                !.work = NoTask.work,
                                !.listing = listing,
                                !.complete = IF listing = {} THEN NoTask.work ELSE @]
        /\ op' = "relist"
        /\ UNCHANGED <<selected, cmd, detail, event, result, trace, frame, hist, pod, out>>

\* one listed pod put into the fresh map; the last one completes the re-seed
TaskSeed ==
    \E p \in task.listing :
        LET work == Upsert(task.work, p)
            done == task.listing = {p}
        IN  /\ task.pc = "relist"
            /\ store' = Published(store, work, done)
            /\ task' = [task EXCEPT !.pc = IF done THEN "watch" ELSE "relist",
                                    !.work = work,
                                    !.listing = @ \ {p},
                                    !.complete = IF done THEN work ELSE @]
            /\ op' = "seed"
            /\ UNCHANGED <<selected, cmd, detail, event, result, trace, frame, hist, pod,
                           out>>

\* the UI loop reads a snapshot, whatever the task is doing
Snapshot ==
    /\ task' = [task EXCEPT !.read = Some([value |-> state(store),
                                           complete |-> state(task.complete),
                                           pc |-> task.pc])]
    /\ op' = "snapshot"
    /\ UNCHANGED <<store, selected, cmd, detail, event, result, trace, frame, hist, pod,
                   out>>

NextSync == TaskEvent \/ TaskExpire \/ TaskSeed \/ Snapshot

SpecSync == Init /\ [][NextSync]_vars

----
\* Pods as the derived-view helpers read them: status, phase, container statuses.

\* containers of a pod
MaxContainers == 2
\* restarts of one container
MaxRestarts == 1
\* finished-at times of last terminations
MaxTime == 2

\* chrono::DateTime::<Utc>::MIN_UTC, below every time of the model
MIN_UTC == 0

WaitingReasons == {"ImagePullBackOff", "Pending"}

TerminatedReasons == {"Error"}

PhaseTexts == {"Pending", "Running", "Succeeded", "Failed"}

Opt(S) == {None} \cup { Some(x) : x \in S }

\* ContainerState: waiting and terminated, each with an optional reason
ContainerStates ==
    { [waiting |-> w, terminated |-> t] :
        w \in Opt({ [reason |-> r] : r \in Opt(WaitingReasons) }),
        t \in Opt({ [reason |-> r] : r \in Opt(TerminatedReasons) }) }

\* last_state: its terminated part, with an optional finished_at
LastStates ==
    { [terminated |-> t] : t \in Opt({ [finished_at |-> f] : f \in Opt(1 .. MaxTime) }) }

DefaultContainer ==
    [state |-> None, restart_count |-> 0, last_state |-> None, ready |-> FALSE]

\* containers that differ in what status() reads
StatusContainers == { [DefaultContainer EXCEPT !.state = st] : st \in Opt(ContainerStates) }

\* containers that differ in what restarts() reads
RestartContainers ==
    { [DefaultContainer EXCEPT !.restart_count = n, !.last_state = l] :
        n \in 0 .. MaxRestarts, l \in Opt(LastStates) }

\* containers that differ in what ready() reads
ReadyContainers == { [DefaultContainer EXCEPT !.ready = r] : r \in BOOLEAN }

SeqsUpTo(S, n) == UNION { [1 .. k -> S] : k \in 0 .. n }

PodOf(phase, cs) == [status |-> Some([phase |-> phase, container_statuses |-> cs])]

HelperPods ==
    {[status |-> None]}
    \cup { PodOf(ph, None) : ph \in Opt(PhaseTexts) }
    \cup { PodOf(ph, Some(cs)) : ph \in Opt(PhaseTexts),
                                 cs \in SeqsUpTo(StatusContainers, MaxContainers) }
    \cup { PodOf(Some("Running"), Some(cs)) :
                                 cs \in SeqsUpTo(RestartContainers, MaxContainers) }
    \cup { PodOf(Some("Running"), Some(cs)) :
                                 cs \in SeqsUpTo(ReadyContainers, MaxContainers) }

Unknown(text) == [variant |-> "Unknown", text |-> text]

\* a conversion that drops the text it does not recognise
PhaseFromLosesText(s) ==
    IF IsSome(s) /\ Unwrap(s) \in {"Pending", "Running", "Succeeded"}
    THEN [variant |-> Unwrap(s), text |-> ""]
    ELSE Unknown("Unknown")

\* From<&Option<String>> for Phase
PhaseFrom(s) ==
    IF IsSome(s)
    THEN CASE Unwrap(s) = "Pending"   -> [variant |-> "Pending", text |-> ""]
           [] Unwrap(s) = "Running"   -> [variant |-> "Running", text |-> ""]
           [] Unwrap(s) = "Succeeded" -> [variant |-> "Succeeded", text |-> ""]
           [] OTHER                   -> Unknown(Unwrap(s))
    ELSE Unknown("Unknown")

RECURSIVE Join(_, _)
\* [String]::join(sep)
Join(ss, sep) ==
    IF ss = <<>> THEN ""
    ELSE IF Len(ss) = 1 THEN ss[1]
    ELSE ss[1] \o sep \o Join(Tail(ss), sep)

\* the filter of status(): the container's state has a waiting part
IsWaiting(c) == IsSome(c.state) /\ IsSome(Unwrap(c.state).waiting)

\* the map of status(): the waiting reason, else the terminated reason, else "unknown"
ReasonOf(c) ==
    LET st == Unwrap(c.state)
    IN  IF IsSome(c.state) /\ IsSome(st.waiting) /\ IsSome(Unwrap(st.waiting).reason)
        THEN Unwrap(Unwrap(st.waiting).reason)
        ELSE IF IsSome(c.state) /\ IsSome(st.terminated)
                /\ IsSome(Unwrap(st.terminated).reason)
        THEN Unwrap(Unwrap(st.terminated).reason)
        ELSE "unknown"

\* PodExt::status()
status(p) ==
    IF IsNone(p.status) THEN PhaseFrom(Some(""))
    ELSE LET st == Unwrap(p.status)
         IN  IF IsNone(st.container_statuses) THEN PhaseFrom(st.phase)
             ELSE LET waiting  == SelectSeq(Unwrap(st.container_statuses), IsWaiting)
                      statuses == [i \in 1 .. Len(waiting) |-> ReasonOf(waiting[i])]
                  IN  IF statuses = <<>> THEN PhaseFrom(st.phase)
                      ELSE PhaseFrom(Some(Join(statuses, ", ")))

RECURSIVE total_restarts(_)
\* the fold of restarts() over restart_count
total_restarts(cs) ==
    IF cs = <<>> THEN 0 ELSE total_restarts(SubSeq(cs, 1, Len(cs) - 1)) + cs[Len(cs)].restart_count

\* the finished_at of a container's last termination, if it has one
FinishedAt(c) ==
    IF IsNone(c.last_state) THEN None
    ELSE IF IsNone(Unwrap(c.last_state).terminated) THEN None
    ELSE Unwrap(Unwrap(c.last_state).terminated).finished_at

RECURSIVE recent_last(_)
\* a fold that keeps the last finished_at it meets instead of the greatest
recent_last(cs) ==
    IF cs = <<>> THEN MIN_UTC
    ELSE LET a == recent_last(SubSeq(cs, 1, Len(cs) - 1))
             f == FinishedAt(cs[Len(cs)])
         IN  IF IsNone(f) THEN a ELSE Unwrap(f)

RECURSIVE recent(_)
\* the fold of restarts() over last_state.terminated.finished_at, from MIN_UTC
recent(cs) ==
    IF cs = <<>> THEN MIN_UTC
    ELSE LET a == recent(SubSeq(cs, 1, Len(cs) - 1))
             f == FinishedAt(cs[Len(cs)])
         IN  IF IsNone(f) THEN a ELSE Max(a, Unwrap(f))

\* Age::to_age() of a time difference
to_age(d) == ToString(d) \o "s"

\* PodExt::restarts(), now being Utc::now()
restarts(p, now) ==
    IF IsNone(p.status) THEN "0"
    ELSE IF IsNone(Unwrap(p.status).container_statuses) THEN "0"
    ELSE LET cs == Unwrap(Unwrap(p.status).container_statuses)
         IN  IF recent(cs) = MIN_UTC THEN ToString(total_restarts(cs))
             ELSE ToString(total_restarts(cs)) \o " (" \o to_age(now - recent(cs)) \o ")"

RECURSIVE ready_all(_)
\* a fold that counts every container status, ready or not
ready_all(cs) ==
    IF cs = <<>> THEN 0 ELSE ready_all(SubSeq(cs, 1, Len(cs) - 1)) + 1

RECURSIVE ready_count(_)
\* the fold of ready(): a + i32::from(c.ready)
ready_count(cs) ==
    IF cs = <<>> THEN 0
    ELSE ready_count(SubSeq(cs, 1, Len(cs) - 1)) + (IF cs[Len(cs)].ready THEN 1 ELSE 0)

\* PodExt::ready()
ready(p) ==
    IF IsNone(p.status) THEN "0/0"
    ELSE IF IsNone(Unwrap(p.status).container_statuses) THEN "0/0"
    ELSE LET cs == Unwrap(Unwrap(p.status).container_statuses)
         IN  ToString(ready_count(cs)) \o "/" \o ToString(Len(cs))

\* the helpers applied to one pod
InitPod ==
    /\ UiInit
    /\ hist = NoHist
    /\ pod \in { Some(p) : p \in HelperPods }
    /\ out = None

CallStatus ==
    /\ IsNone(out)
    /\ out' = Some([fn |-> "status", value |-> status(Unwrap(pod))])
    /\ op' = "call"
    /\ UNCHANGED <<store, selected, cmd, detail, event, result, trace, frame, hist, pod, task>>

CallRestarts ==
    \E now \in MaxTime .. MaxTime + 1 :
        /\ IsNone(out)
        /\ out' = Some([fn |-> "restarts", value |-> restarts(Unwrap(pod), now), now |-> now])
        /\ op' = "call"
        /\ UNCHANGED <<store, selected, cmd, detail, event, result, trace, frame, hist, pod, task>>

CallReady ==
    /\ IsNone(out)
    /\ out' = Some([fn |-> "ready", value |-> ready(Unwrap(pod))])
    /\ op' = "call"
    /\ UNCHANGED <<store, selected, cmd, detail, event, result, trace, frame, hist, pod, task>>

NextPod == CallStatus \/ CallRestarts \/ CallReady

SpecPod == InitPod /\ [][NextPod]_vars

----
\* Reading the trace of a dispatch.

Offered(tr, node) == \E i \in 1 .. Len(tr) : tr[i].node = node

ResultOf(tr, node) == tr[CHOOSE i \in 1 .. Len(tr) : tr[i].node = node].result

Rank(node) == CASE node = "cmd" -> 1 [] node = "detail" -> 2 [] node = "own" -> 3

KeyDispatched == op = "dispatch" /\ event.kind = "Keypress"

----
\* C1: when an open child (overlay or detail) returns Exited, the List no longer
\* holds that child once its own dispatch returns, and the List returns Consumed.
ExitedChildIsDetached ==
    op = "dispatch" =>
        /\ (Offered(trace, "cmd") /\ ResultOf(trace, "cmd") = "Exited")
              => (IsNone(cmd) /\ result = "Consumed")
        /\ (Offered(trace, "detail") /\ ResultOf(trace, "detail") = "Exited")
              => (IsNone(detail) /\ result = "Consumed")

\* the part of C1 the code keeps: the List answers a child's Exited with Consumed
ExitedChildIsConsumed ==
    op = "dispatch" =>
        \A n \in {"cmd", "detail"} :
            (Offered(trace, n) /\ ResultOf(trace, n) = "Exited") => result = "Consumed"

----
\* C2: Escape makes the overlay return Exited always, the List return Exited when
\* neither child is open, and the detail return Exited when its tabbed view did not
\* consume the key; the node that exits keeps its state (text, cursor, selection).
EscapeExits ==
    [][ (op' = "dispatch" /\ event' = Key("Escape")) =>
            /\ IsSome(cmd) =>
                  /\ Offered(trace', "cmd") /\ ResultOf(trace', "cmd") = "Exited"
                  /\ cmd' = cmd
            /\ (IsNone(cmd) /\ IsNone(detail)) =>
                  /\ result' = "Exited"
                  /\ cmd' = cmd /\ detail' = detail /\ selected' = selected
            /\ (Offered(trace', "detail") /\ ResultOf(trace', "view") # "Consumed") =>
                  /\ ResultOf(trace', "detail") = "Exited"
                  /\ detail' = detail
      ]_vars

\* an Escape reached the List with no child open, and the List exited
EscapeAtBareList ==
    /\ op = "dispatch" /\ event = Key("Escape")
    /\ trace = <<[node |-> "own", result |-> "Exited"]>>
    /\ result = "Exited"

\* an Escape reached the open overlay, which exited
EscapeAtOverlay ==
    /\ op = "dispatch" /\ event = Key("Escape")
    /\ Offered(trace, "cmd") /\ ResultOf(trace, "cmd") = "Exited"

\* an Escape reached the open detail, whose view did not consume it
EscapeAtDetail ==
    /\ op = "dispatch" /\ event = Key("Escape")
    /\ Offered(trace, "detail") /\ ResultOf(trace, "view") = "Ignored"
    /\ ResultOf(trace, "detail") = "Exited"

----
\* The order in which a key event went through the List: c and d are the child
\* slots before the dispatch, tr the trace, res the List's result, and exitedAs
\* what the List returns for a child that exited.
OrderOf(c, d, tr, res, exitedAs) ==
    LET T    == SelectSeq(tr, LAMBDA x : x.node # "view")
        used == { i \in 1 .. Len(T) : T[i].node \in {"cmd", "detail"}
                                       /\ T[i].result # "Ignored" }
    IN  /\ Offered(T, "cmd") <=> IsSome(c)
        /\ Offered(T, "detail") <=>
              (IsSome(d) /\ (IsNone(c) \/ ResultOf(T, "cmd") = "Ignored"))
        /\ Offered(T, "own") <=> (used = {})
        /\ \A i, j \in 1 .. Len(T) : i < j => Rank(T[i].node) < Rank(T[j].node)
        /\ \A i \in used :
              /\ i = Len(T)
              /\ res = IF T[i].result = "Exited" THEN exitedAs ELSE T[i].result
        /\ Offered(T, "own") => res = ResultOf(T, "own")

BothIgnoredOwnRan ==
    /\ KeyDispatched
    /\ Offered(trace, "cmd") /\ ResultOf(trace, "cmd") = "Ignored"
    /\ Offered(trace, "detail") /\ ResultOf(trace, "detail") = "Ignored"
    /\ Offered(trace, "own")

----
\* The order the spec gives for the snapshot, stated without Compare::cmp.

\* a comes strictly before b in byte-lexicographic order
TextLess(a, b) ==
    \E i \in 1 .. Len(b) :
        /\ \A j \in 1 .. i - 1 : j <= Len(a) /\ a[j] = b[j]
        /\ \/ i = Len(a) + 1
           \/ i <= Len(a) /\ Byte(a[i]) < Byte(b[i])

NsText(p) == IF p.ns = None THEN <<>> ELSE p.ns[1]

\* p comes strictly before q by namespace, then by name
KeyLess(p, q) ==
    \/ TextLess(NsText(p), NsText(q))
    \/ NsText(p) = NsText(q) /\ TextLess(p.name, q.name)

\* the entries of a snapshot that carry key k
EntriesOf(snap, k) == { i \in 1 .. Len(snap) : KeyOf(snap[i]) = k }

----
\* C4: after any sequence of watch events, the snapshot holds for each key exactly
\* the pod of the key's last Added/Modified event, and nothing for a key whose last
\* event was Deleted (or that was never seen).
LastEventWins ==
    LET snap == state(store)
    IN  \A k \in Keys :
            IF IsSome(hist[k]) /\ Unwrap(hist[k]).type \in {"Added", "Modified"}
            THEN \E i \in 1 .. Len(snap) :
                    EntriesOf(snap, k) = {i} /\ snap[i] = Unwrap(hist[k]).pod
            ELSE EntriesOf(snap, k) = {}

\* three keys were replayed: one last Deleted, one last Modified to a later version,
\* one last Added
ReplayedAllKinds ==
    /\ \E k \in Keys : IsSome(hist[k]) /\ Unwrap(hist[k]).type = "Deleted"
    /\ \E k \in Keys : /\ IsSome(hist[k]) /\ Unwrap(hist[k]).type = "Modified"
                       /\ Unwrap(hist[k]).pod.ver = MaxReplayVersion
    /\ \E k \in Keys : IsSome(hist[k]) /\ Unwrap(hist[k]).type = "Added"

----
\* C5: the snapshot is sorted ascending by namespace (missing = empty) and then by
\* name, and on the pods of the snapshot Compare::cmp is that total order.
SnapshotSorted ==
    LET snap == state(store)
    IN  /\ \A i, j \in 1 .. Len(snap) : i < j => KeyLess(snap[i], snap[j])
        /\ \A i, j \in 1 .. Len(snap) :
              /\ cmp(snap[i], snap[j]) = "Less" <=> KeyLess(snap[i], snap[j])
              /\ cmp(snap[i], snap[j]) = "Greater" <=> KeyLess(snap[j], snap[i])
              /\ cmp(snap[i], snap[j]) = "Equal" <=> i = j

\* all three pods are in the snapshot: the one without a namespace first although
\* its name is the greatest
SnapshotOfThree ==
    LET snap == state(store)
    IN  /\ Len(snap) = 3
        /\ snap[1].ns = None
        /\ \A i \in 2 .. 3 : TextLess(snap[i].name, snap[1].name)

----
\* C6: after every render of the list the selection lies in [0, visible - 1]
\* whenever some item is visible.
SelectionInRangeAfterRender ==
    (op = "draw" /\ frame.main = "list" /\ Len(frame.rows) > 0)
        => selected <= Len(frame.rows) - 1

----
\* the name of p holds f as a contiguous run of equal characters
HasRun(p, f) ==
    \E i \in 0 .. Len(p.name) :
        /\ i + Len(f) <= Len(p.name)
        /\ \A j \in 1 .. Len(f) : p.name[i + j] = f[j]

\* C7: the visible items are exactly the snapshot's pods whose name contains the
\* filter text (case-sensitively), in snapshot order; all of them with an empty
\* filter or without one. A rendered list shows these rows.
VisibleAreMatches ==
    LET snap == state(store)
        f    == IF IsSome(cmd) THEN Unwrap(cmd).content ELSE <<>>
        vis  == items(cmd, store)
    IN  /\ vis = SelectSeq(snap, LAMBDA p : HasRun(p, f))
        /\ (f = <<>>) => vis = snap
        /\ (op = "draw" /\ frame.main = "list") => frame.rows = vis

\* the list was rendered with the filter "a" over all three pods: the two names
\* holding a lower-case "a" are shown, the one holding "A" is not
FilteredListRendered ==
    /\ op = "draw" /\ frame.main = "list"
    /\ IsSome(cmd) /\ Unwrap(cmd).content = <<"a">>
    /\ Len(state(store)) = 3
    /\ Len(frame.rows) = 2
    /\ \A i \in 1 .. 2 : frame.rows[i].name \in {<<"b", "a">>, <<"a">>}

----
\* Reading a helper call.

Called(fn) == IsSome(out) /\ Unwrap(out).fn = fn

Value == Unwrap(out).value

HasStatuses == IsSome(Unwrap(pod).status)
               /\ IsSome(Unwrap(Unwrap(pod).status).container_statuses)

Statuses == Unwrap(Unwrap(Unwrap(pod).status).container_statuses)

TopPhase == Unwrap(Unwrap(pod).status).phase

\* the phase a text stands for
ParseText(t) ==
    IF t \in {"Pending", "Running", "Succeeded"} THEN [variant |-> t, text |-> ""]
    ELSE [variant |-> "Unknown", text |-> t]

WaitingWithReason(c) ==
    /\ IsSome(c.state) /\ IsSome(Unwrap(c.state).waiting)
    /\ IsSome(Unwrap(Unwrap(c.state).waiting).reason)

TerminatedWithReason(c) ==
    /\ IsSome(c.state) /\ IsSome(Unwrap(c.state).terminated)
    /\ IsSome(Unwrap(Unwrap(c.state).terminated).reason)

HasReason(c) == WaitingWithReason(c) \/ TerminatedWithReason(c)

\* the container is waiting or terminated, not running
NonRunning(c) ==
    IsSome(c.state) /\ (IsSome(Unwrap(c.state).waiting) \/ IsSome(Unwrap(c.state).terminated))

\* the parts of phase derivation on which claim and code agree: no status, no
\* container statuses, and a single non-running container that waits with a reason
PhaseBasics ==
    /\ IsNone(Unwrap(pod).status) => Value = [variant |-> "Unknown", text |-> ""]
    /\ (IsSome(Unwrap(pod).status) /\ ~HasStatuses /\ IsSome(TopPhase))
          => Value = ParseText(Unwrap(TopPhase))
    /\ HasStatuses =>
          \A i \in 1 .. Len(Statuses) :
              ( /\ WaitingWithReason(Statuses[i])
                /\ \A j \in 1 .. Len(Statuses) : j # i => ~NonRunning(Statuses[j]) )
              => Value = ParseText(Unwrap(Unwrap(Unwrap(Statuses[i].state).waiting).reason))

\* C8 as stated: status() yields Unknown("") without a status, the mapped top-level
\* phase without container statuses, the phase parsed from r for a lone waiting
\* container with reason r, and the top-level phase when container statuses exist
\* but no container has a reason.
PhaseFallsBackWithoutReason ==
    Called("status") =>
        /\ PhaseBasics
        /\ (HasStatuses /\ IsSome(TopPhase)
            /\ \A i \in 1 .. Len(Statuses) : ~HasReason(Statuses[i]))
              => Value = ParseText(Unwrap(TopPhase))

\* C8: the same, with the fallback to the top-level phase when container statuses
\* exist and no container is waiting or has a reason; a lone waiting container
\* without any reason yields Unknown("unknown").
PhaseDerivation ==
    Called("status") =>
        /\ PhaseBasics
        /\ (HasStatuses /\ IsSome(TopPhase)
            /\ \A i \in 1 .. Len(Statuses) :
                  ~HasReason(Statuses[i]) /\ ~IsWaiting(Statuses[i]))
              => Value = ParseText(Unwrap(TopPhase))
        /\ HasStatuses =>
              \A i \in 1 .. Len(Statuses) :
                  ( /\ IsWaiting(Statuses[i]) /\ ~HasReason(Statuses[i])
                    /\ \A j \in 1 .. Len(Statuses) : j # i => ~IsWaiting(Statuses[j]) )
                  => Value = [variant |-> "Unknown", text |-> "unknown"]

\* status() was called on a running pod whose one container waits with the reason
\* ImagePullBackOff, and answered Unknown("ImagePullBackOff")
ImagePullBackOffSeen ==
    /\ Called("status")
    /\ HasStatuses /\ TopPhase = Some("Running")
    /\ Len(Statuses) = 1 /\ WaitingWithReason(Statuses[1])
    /\ Value = [variant |-> "Unknown", text |-> "ImagePullBackOff"]

\* status() was called on a pod with container statuses of which none waits or has
\* a reason, and answered with the top-level phase
FallbackSeen ==
    /\ Called("status")
    /\ HasStatuses /\ TopPhase = Some("Failed")
    /\ Len(Statuses) = MaxContainers
    /\ \A i \in 1 .. Len(Statuses) : ~HasReason(Statuses[i]) /\ ~IsWaiting(Statuses[i])
    /\ Value = [variant |-> "Unknown", text |-> "Failed"]

----
\* C9: the effective phase text is the reasons of all containers that are waiting
\* or terminated with a reason, joined with ", " in container order; a container
\* terminated with a reason counts as a waiting one does.
ReasonsOfWaitingAndTerminated ==
    (Called("status") /\ HasStatuses) =>
        LET contributing == SelectSeq(Statuses,
                                      LAMBDA c : IsWaiting(c) \/ TerminatedWithReason(c))
            reasons == [i \in 1 .. Len(contributing) |-> ReasonOf(contributing[i])]
        IN  ( /\ contributing # <<>>
              /\ \A i \in 1 .. Len(contributing) : HasReason(contributing[i]) )
            => Value = ParseText(Join(reasons, ", "))

\* the part of C9 the code keeps: the reasons of the waiting containers, joined
ReasonsOfWaiting ==
    (Called("status") /\ HasStatuses) =>
        LET contributing == SelectSeq(Statuses, IsWaiting)
            reasons == [i \in 1 .. Len(contributing) |-> ReasonOf(contributing[i])]
        IN  contributing # <<>> => Value = ParseText(Join(reasons, ", "))

----
\* the finished-at times of the last terminations of a pod's containers
Finished ==
    { Unwrap(FinishedAt(Statuses[i])) :
        i \in { j \in 1 .. Len(Statuses) : IsSome(FinishedAt(Statuses[j])) } }

RECURSIVE SumRestarts(_)
SumRestarts(cs) == IF cs = <<>> THEN 0 ELSE Head(cs).restart_count + SumRestarts(Tail(cs))

\* "<sum> (<age since the greatest finished-at>)"
SumWithAge ==
    \E t \in Finished :
        /\ \A u \in Finished : u <= t
        /\ Value = ToString(SumRestarts(Statuses)) \o " (" \o to_age(Unwrap(out).now - t) \o ")"

\* C10 as stated: restarts() is the bare sum exactly when the sum is zero and no
\* container has a last termination, and "<sum> (<age since the most recent
\* termination>)" in every other case.
BareSumOnlyWhenZero ==
    (Called("restarts") /\ HasStatuses) =>
        IF SumRestarts(Statuses) = 0 /\ Finished = {}
        THEN Value = ToString(SumRestarts(Statuses))
        ELSE SumWithAge

\* C10: restarts() is the bare sum exactly when no container has a last termination
\* with a finished-at time, whatever the sum ("0" without status or container
\* statuses), and "<sum> (<age since the greatest finished-at>)" otherwise.
RestartSummary ==
    Called("restarts") =>
        IF ~HasStatuses THEN Value = "0"
        ELSE IF Finished = {} THEN Value = ToString(SumRestarts(Statuses))
        ELSE SumWithAge

\* restarts() was called on two restarted containers whose last terminations
\* finished at different times, the earlier one second, and answered with the sum
\* and the age of the later one
TwoTerminationsSeen ==
    /\ Called("restarts") /\ HasStatuses
    /\ Len(Statuses) = 2
    /\ FinishedAt(Statuses[1]) = Some(MaxTime)
    /\ FinishedAt(Statuses[2]) = Some(MaxTime - 1)
    /\ SumRestarts(Statuses) = 2 * MaxRestarts
    /\ SumWithAge

\* restarts() was called on restarted containers without any last termination and
\* answered with the bare, non-zero sum
BareNonZeroSumSeen ==
    /\ Called("restarts") /\ HasStatuses
    /\ Finished = {}
    /\ SumRestarts(Statuses) > 0
    /\ Value = ToString(SumRestarts(Statuses))

----
\* C11: ready() is "R/T" with R the number of container statuses that are ready and
\* T the number of container statuses, "0/0" when the status or the container
\* statuses are absent; R never exceeds T and every pod gets an answer.
ReadyFraction ==
    Called("ready") =>
        IF ~HasStatuses THEN Value = "0/0"
        ELSE LET R == Cardinality({ i \in 1 .. Len(Statuses) : Statuses[i].ready })
                 T == Len(Statuses)
             IN  Value = ToString(R) \o "/" \o ToString(T) /\ R <= T

\* ready() was called on a pod with one ready container and one that is not, and
\* answered "1/2"
OneOfTwoReady ==
    /\ Called("ready") /\ HasStatuses
    /\ Len(Statuses) = 2
    /\ Statuses[1].ready /\ ~Statuses[2].ready
    /\ Value = "1/2"

----
----
\* the overlay took the key of the dispatch just made and answered r
OverlayAnswered(r) ==
    op = "dispatch" /\ IsSome(cmd) /\ Offered(trace, "cmd") /\ ResultOf(trace, "cmd") = r

\* C13: while the overlay is open the filter is its live text: a list rendered
\* right after the overlay consumed a key shows exactly the pods matching the
\* overlay's text as that key left it, under the overlay showing that text.
LiveFilter ==
    [][(OverlayAnswered("Consumed") /\ op' = "draw" /\ frame'.main = "list") =>
           /\ frame'.overlay = Some(Unwrap(cmd).content)
           /\ frame'.rows = SelectSeq(state(store),
                                      LAMBDA p : HasRun(p, Unwrap(cmd).content))]_vars

\* the overlay has just consumed Printable("a") over three pods with no detail open:
\* its text is now "a", which narrows the list the next render shows to two pods
TypedKeyNarrowsList ==
    /\ OverlayAnswered("Consumed") /\ event = Printable(<<"a">>)
    /\ Unwrap(cmd).content = <<"a">>
    /\ IsNone(detail)
    /\ Len(state(store)) = 3
    /\ Len(items(cmd, store)) = 2

----
\* C14: once the overlay has exited on Escape it is closed, and the text it left
\* stays the filter: the list rendered next shows no overlay and only the pods
\* matching that text.
FilterOutlivesOverlay ==
    [][(OverlayAnswered("Exited") /\ op' = "draw" /\ frame'.main = "list") =>
           /\ frame'.overlay = None
           /\ frame'.rows = SelectSeq(state(store),
                                      LAMBDA p : HasRun(p, Unwrap(cmd).content))]_vars

----
\* the number of visible items, as the filter text defines it
VisibleCount ==
    Len(SelectSeq(state(store),
                  LAMBDA p : HasRun(p, IF IsSome(cmd) THEN Unwrap(cmd).content ELSE <<>>)))

\* the step is a dispatch of key k that got as far as the list's own bindings
OwnKeyStep(k) ==
    op' = "dispatch" /\ event'.kind = "Keypress" /\ event'.key = k /\ Offered(trace', "own")

\* C15 as stated: CursorUp moves the selection s to max(0, s - 1), CursorDown to
\* min(s + 1, max(visible_count, 1) - 1); the dispatch returns Consumed and leaves
\* both child slots alone.
NavigationAsStated ==
    [][/\ OwnKeyStep("CursorUp") => selected' = Max(0, selected - 1)
       /\ OwnKeyStep("CursorDown") =>
              selected' = Min(selected + 1, Max(VisibleCount, 1) - 1)
       /\ (OwnKeyStep("CursorUp") \/ OwnKeyStep("CursorDown")) =>
              result' = "Consumed" /\ cmd' = cmd /\ detail' = detail]_vars

\* C15: CursorUp moves the selection s to min(max(0, s - 1), max(visible_count, 1) - 1),
\* CursorDown to min(s + 1, max(visible_count, 1) - 1); the dispatch returns
\* Consumed and leaves both child slots alone.
NavigationClamped ==
    [][/\ OwnKeyStep("CursorUp") =>
              selected' = Min(Max(0, selected - 1), Max(VisibleCount, 1) - 1)
       /\ OwnKeyStep("CursorDown") =>
              selected' = Min(selected + 1, Max(VisibleCount, 1) - 1)
       /\ (OwnKeyStep("CursorUp") \/ OwnKeyStep("CursorDown")) =>
              result' = "Consumed" /\ cmd' = cmd /\ detail' = detail]_vars

\* CursorUp reached the list's own bindings with the last of three pods selected
\* and moved the selection to the middle one
MovedUpFromLast ==
    /\ KeyDispatched /\ event.key = "CursorUp" /\ Offered(trace, "own")
    /\ result = "Consumed"
    /\ IsNone(cmd) /\ Len(state(store)) = 3
    /\ selected = 1

----
\* the visible items, as the filter text defines them
Visible ==
    SelectSeq(state(store),
              LAMBDA p : HasRun(p, IF IsSome(cmd) THEN Unwrap(cmd).content ELSE <<>>))

\* C16: when Enter reaches the list's own bindings and the visible list is not
\* empty, a detail is open afterwards and holds the pod at the selection index of
\* the visible list, whatever navigation, filter editing and watch events came before.
EnterOpensSelected ==
    [][(OwnKeyStep("Enter") /\ Visible # <<>>) =>
           /\ IsSome(detail')
           /\ selected < Len(Visible)
           /\ Unwrap(detail').pod = Visible[selected + 1]]_vars

----
\* the child in the slot returned Exited in the dispatch the step makes
ExitedInStep(node) ==
    op' = "dispatch" /\ Offered(trace', node) /\ ResultOf(trace', node) = "Exited"

\* C17: an open child is removed or replaced only in a dispatch in which that very
\* child returned Exited; no other step empties a child slot or puts another child
\* into it (Enter at the list's own bindings assigns the detail slot, "/" there
\* assigns the overlay slot).
ChildKeptUntilItExits ==
    [][/\ (IsSome(detail) /\ (detail' # detail \/ OwnKeyStep("Enter")))
              => ExitedInStep("detail")
       /\ (IsSome(cmd) /\ (IsNone(cmd') \/ (OwnKeyStep("Printable") /\ cmd' = Some(NewCommand))))
              => ExitedInStep("cmd")]_vars

----
\* C18: when the tabbed view returns Exited for an event the detail forwarded, the
\* detail's own dispatch returns Consumed or Exited, never Ignored.
ViewExitNotIgnored ==
    (KeyDispatched /\ Offered(trace, "view") /\ ResultOf(trace, "view") = "Exited")
        => ResultOf(trace, "detail") \in {"Consumed", "Exited"}

----
\* the keys the list binds: Escape, Enter, CursorUp, CursorDown and "/"
BoundKey(e) ==
    e.key \in {"Escape", "Enter", "CursorUp", "CursorDown"} \/ e = Printable(<<"/">>)

\* C19: the list returns Consumed only for events it acted on: a key that reaches
\* its own bindings and that it does not bind returns Ignored, and an event that is
\* not a keypress returns Ignored with the list, both children included, unchanged.
ConsumedOnlyWhenActed ==
    [][/\ (op' = "dispatch" /\ event'.kind = "Keypress" /\ Offered(trace', "own")
             /\ ~BoundKey(event'))
            => result' = "Ignored" /\ UNCHANGED <<selected, cmd, detail>>
       /\ (op' = "dispatch" /\ event'.kind # "Keypress")
            => result' = "Ignored" /\ UNCHANGED <<selected, cmd, detail, store>>]_vars

----
\* the step hands key k to the overlay
OverlayKeyStep(k) == op' = "key" /\ event'.kind = "Keypress" /\ event'.key = k

\* the overlay before the step, and after it
Before == Unwrap(cmd)
After == Unwrap(cmd')

\* C20: in the overlay with cursor p, Printable(c) inserts c at the cursor and
\* advances the cursor by one; Backspace with p > 0 removes the character at p - 1
\* and moves the cursor to p - 1, and changes nothing when p = 0 or the text is
\* empty; CursorLeft and CursorRight move the cursor by one within [0, length];
\* each of these keys returns Consumed.
OverlayEditing ==
    [][/\ OverlayKeyStep("Printable") =>
              /\ result' = "Consumed"
              /\ After.content = SubSeq(Before.content, 1, Before.pos) \o event'.text
                                   \o SubSeq(Before.content, Before.pos + 1,
                                             Len(Before.content))
              /\ After.pos = Before.pos + 1
       /\ OverlayKeyStep("Backspace") =>
              /\ result' = "Consumed"
              /\ IF Before.pos = 0 \/ Before.content = <<>>
                 THEN After = Before
                 ELSE /\ After.pos = Before.pos - 1
                      /\ Len(After.content) < Len(Before.content)
                      /\ SubSeq(After.content, 1, After.pos)
                             = SubSeq(Before.content, 1, After.pos)
       /\ OverlayKeyStep("CursorLeft") =>
              /\ result' = "Consumed"
              /\ After = [Before EXCEPT !.pos = Max(0, Before.pos - 1)]
       /\ OverlayKeyStep("CursorRight") =>
              /\ result' = "Consumed"
              /\ After = [Before EXCEPT !.pos = Min(Before.pos + 1, Len(Before.content))]
      ]_vars

----
\* C21: after any sequence of Printable, Backspace, CursorLeft, CursorRight and
\* Escape keys handed to an overlay that started empty, the cursor satisfies
\* 0 <= pos <= length of the text (String::len, the length the code clamps to), so
\* the offset an insertion uses lies in [0, length] and the offset a backspace
\* removes at lies in [0, length - 1].
CursorWithinText ==
    LET c == Unwrap(cmd)
    IN  /\ 0 <= c.pos /\ c.pos <= Len(c.content)
        /\ (c.content # <<>> /\ c.pos # 0) =>
               (0 <= c.pos - 1 /\ c.pos - 1 <= Len(c.content) - 1)

\* CursorRight was pressed in a text holding a one-byte and a two-byte character:
\* the cursor stands at the length of the text, three bytes, and no further
CursorStopsAtEnd ==
    /\ op = "key" /\ event = Key("CursorRight") /\ result = "Consumed"
    /\ Unwrap(cmd).content = <<"a">> \o TwoByteChar
    /\ Unwrap(cmd).pos = 3

====
